---- MODULE Spec2Model ----
(***************************************************************************)
(* Flight simulator core: InputManager (input fusion), CraftController     *)
(* (flight dynamics), GameEngine (simulation loop) and the App that drives *)
(* them.                                                                   *)
(*                                                                         *)
(* Numbers.  The program computes in IEEE doubles; the model computes in   *)
(* fixed point, every operation truncating toward zero:                    *)
(*   lengths, velocities, accelerations, gForce : 1/100 of a unit (Scale)  *)
(*   control axes, angular velocity, angles     : 1/1000 (AxisScale)       *)
(*   sines and cosines                          : 1/10000 (TrigScale)      *)
(*   time                                       : 1/10 s  (TimeScale)      *)
(*   pointer coordinates in pixels, orientation angles in degrees.         *)
(***************************************************************************)
EXTENDS Integers, Sequences, FiniteSets, TLC

VARIABLES
    state,              \* CraftController.state
    inputState,         \* InputManager.inputState
    keys,               \* InputManager.keys
    lastTouchX,         \* InputManager.lastTouchX
    lastTouchY,         \* InputManager.lastTouchY
    gyroscopeEnabled,   \* InputManager.gyroscopeEnabled
    gyro,               \* InputManager.gyroAlpha / gyroBeta / gyroGamma
    permission,         \* requestGyroscopePermission(): "pending", "settled"
                        \* (nothing to ask) or the answer it got
    isInitialized,      \* GameEngine.isInitialized
    isPaused,           \* GameEngine.isPaused
    animationId,        \* GameEngine.animationId (0 models null)
    frames,             \* host: handles of the frame callbacks still pending
    clock,              \* GameEngine.clock (THREE.Clock)
    initCalls,          \* initialize() calls awaiting Promise.all
    systems,            \* propulsion / cloaking / sensors effect modules
    gameState,          \* App: the React GameState (SessionState)
    deltaTime,          \* deltaTime of the last update()
    ticks,              \* history: number of ticks executed
    disposed,           \* history: dispose() has been called
    lastAct,            \* history: the last operation executed
    again,              \* history: that operation found the loop already
                        \* paused (a pause) or already running (resume)
    lastArg,            \* history: the arguments of the last toggleSystem, or
                        \* the module whose initialize() failed
    craftSnapshot,      \* an object returned by CraftController.getState()
    inputSnapshot       \* an object returned by InputManager.getState()

vars == <<state, inputState, keys, lastTouchX, lastTouchY, gyroscopeEnabled,
          gyro, permission, isInitialized, isPaused, animationId, frames,
          clock, initCalls, systems, gameState, deltaTime, ticks,
          disposed, lastAct, again, lastArg, craftSnapshot,
          inputSnapshot>>

craftVars  == <<state>>
inputVars  == <<inputState, keys, lastTouchX, lastTouchY, gyroscopeEnabled,
                gyro, permission>>
engineVars == <<isInitialized, isPaused, animationId, frames, clock,
                initCalls, systems, disposed>>

snapshotVars == <<craftSnapshot, inputSnapshot>>

\* lastArg when the last operation has none.
NoArg == [system |-> "none", enabled |-> FALSE]

(***************************************************************************)
(* Units and bounds                                                        *)
(***************************************************************************)
Scale     == 10 * 10
AxisScale == 10 * 100
TrigScale == 100 * 100
TimeScale == 5 + 5

\* Longest run of ticks explored by the flight-dynamics specification.
MaxFlightTicks == 3

(***************************************************************************)
(* Fixed-point arithmetic                                                  *)
(***************************************************************************)
Abs(a) == IF a < 0 THEN -a ELSE a

Sgn(a) == IF a < 0 THEN -1 ELSE 1

Max(a, b) == IF a >= b THEN a ELSE b

Min(a, b) == IF a <= b THEN a ELSE b

\* a / b truncated toward zero (b > 0).
Quot(a, b) == IF a >= 0 THEN a \div b ELSE -((-a) \div b)

\* <<q, r>> with a * b = q * c + r and 0 <= r < c, for a, b >= 0 and c > 0,
\* by doubling, so that no intermediate product leaves 32 bits.
RECURSIVE MulDivQR(_, _, _)
MulDivQR(a, b, c) ==
    IF b = 0 THEN <<0, 0>>
    ELSE LET h  == MulDivQR(a, b \div 2, c)
             qa == IF b % 2 = 1 THEN a \div c ELSE 0
             ra == IF b % 2 = 1 THEN a % c ELSE 0
             r  == 2 * h[2] + ra
         IN  <<2 * h[1] + qa + (r \div c), r % c>>

\* a * b / c truncated toward zero (b >= 0, c > 0).
MulDiv(a, b, c) == Sgn(a) * MulDivQR(Abs(a), b, c)[1]

\* Squares and sums of squares as <<hi, lo>> = hi * 10^6 + lo, lo < 10^6.
Million == 1000 * 1000

BigSq(x) ==
    LET a   == Abs(x)
        xh  == a \div 1000
        xl  == a % 1000
        m   == 2 * xh * xl
        low == (m % 1000) * 1000 + xl * xl
    IN  <<xh * xh + (m \div 1000) + (low \div Million), low % Million>>

BigAdd(p, q) ==
    LET low == p[2] + q[2]
    IN  <<p[1] + q[1] + (low \div Million), low % Million>>

BigLeq(p, q) == p[1] < q[1] \/ (p[1] = q[1] /\ p[2] <= q[2])

\* The largest r in lo..hi with r * r <= s (s given as <<hi, lo>>).
RECURSIVE BigSqrt(_, _, _)
BigSqrt(s, lo, hi) ==
    IF lo >= hi THEN lo
    ELSE LET mid == (lo + hi + 1) \div 2
         IN  IF BigLeq(BigSq(mid), s) THEN BigSqrt(s, mid, hi)
             ELSE BigSqrt(s, lo, mid - 1)

(***************************************************************************)
(* THREE.Vector3 / THREE.Euler                                             *)
(***************************************************************************)
Vec(a, b, c) == [x |-> a, y |-> b, z |-> c]

Zero3 == Vec(0, 0, 0)

VAdd(u, v) == Vec(u.x + v.x, u.y + v.y, u.z + v.z)

\* Vector3.length(): sqrt(x*x + y*y + z*z).
Length(v) ==
    LET s == BigAdd(BigSq(v.x), BigAdd(BigSq(v.y), BigSq(v.z)))
        m == Abs(v.x) + Abs(v.y) + Abs(v.z)
    IN  BigSqrt(s, 0, m)

\* v.clone().multiplyScalar(dt), dt in 1/TimeScale seconds.
VTimesDt(v, dt) ==
    Vec(MulDiv(v.x, dt, TimeScale), MulDiv(v.y, dt, TimeScale),
        MulDiv(v.z, dt, TimeScale))

\* The sum t - t*x2/(n(n+1)) + t*x2^2/(n(n+1)(n+2)(n+3)) - ... of a Taylor
\* series, from the term t to the term divided by last * (last + 1).
RECURSIVE Taylor(_, _, _, _)
Taylor(t, x2, n, last) ==
    IF n > last THEN t
    ELSE t - Taylor(Quot(Quot(t * x2, TrigScale), n * (n + 1)), x2, n + 2, last)

\* An angle of 1/TrigScale radians in [0, 2 pi) brought to (-pi, pi].
Wrap(a) == IF a > 31416 THEN a - 2 * 31416 ELSE a

\* An angle in (-pi, pi] reflected to [-pi/2, pi/2]: the sine is unchanged,
\* the cosine changes sign.
Fold(a) ==
    IF Abs(a) <= 31416 \div 2 THEN a
    ELSE IF a > 0 THEN 31416 - a ELSE 0 - 31416 - a

\* sin and cos of x in [-pi/2, pi/2], the cosine negated when the angle was
\* reflected: the Taylor series summed to the x^9 / x^8 term.
SinCosFolded(x, flip) ==
    [sin |-> Taylor(x, Quot(x * x, TrigScale), 2, 8),
     cos |-> (IF flip THEN -1 ELSE 1)
               * Taylor(TrigScale, Quot(x * x, TrigScale), 1, 7)]

SinCosWrapped(a) == SinCosFolded(Fold(a), Abs(a) > 31416 \div 2)

\* Math.sin and Math.cos of an angle of 1/AxisScale radians, at TrigScale.
SinCos(angle) == SinCosWrapped(Wrap((angle * 10) % (2 * 31416)))

\* The product of two sines or cosines.
TrigMul(p, q) == Quot(p * q, TrigScale)

\* One row (m1, m2, m3) of a rotation matrix times v.
Row(m1, m2, m3, v) == Quot(m1 * v.x + m2 * v.y + m3 * v.z, TrigScale)

\* The rotation matrix of Euler angles with sines b, d, f and cosines a, c, e
\* about x, y, z (order XYZ: Rx * Ry * Rz), times v.
Rotate(a, b, c, d, e, f, v) ==
    Vec(Row(TrigMul(c, e), 0 - TrigMul(c, f), d, v),
        Row(TrigMul(a, f) + TrigMul(TrigMul(b, e), d),
            TrigMul(a, e) - TrigMul(TrigMul(b, f), d),
            0 - TrigMul(b, c), v),
        Row(TrigMul(b, f) - TrigMul(TrigMul(a, e), d),
            TrigMul(b, e) + TrigMul(TrigMul(a, f), d),
            TrigMul(a, c), v))

\* The rotation by the Euler angles whose sines and cosines are rx, ry, rz.
RotateBy(rx, ry, rz, v) ==
    Rotate(rx.cos, rx.sin, ry.cos, ry.sin, rz.cos, rz.sin, v)

\* Vector3.applyEuler(euler)
ApplyEuler(v, euler) ==
    RotateBy(SinCos(euler.x), SinCos(euler.y), SinCos(euler.z), v)

(***************************************************************************)
(* CraftController                                                         *)
(***************************************************************************)
baseThrust == 500

maxSpeed == 2000

\* 9.81, at Scale.
gravityStrength == 981

\* A craft built without the anti-gravity reduction.
CraftInitFullGravity ==
    [position         |-> Vec(0, 1000 * Scale, 0),
     velocity         |-> Zero3,
     acceleration     |-> Zero3,
     rotation         |-> Zero3,
     angularVelocity  |-> Zero3,
     mass             |-> 1000,
     gravityReduction |-> 0,
     speed            |-> 0,
     altitude         |-> 1000 * Scale,
     gForce           |-> 1 * Scale]

\* The state built by the constructor.  mass is a plain number,
\* gravityReduction (0.892) is kept in 1/AxisScale, gForce at Scale.
CraftInit ==
    [position         |-> Vec(0, 1000 * Scale, 0),
     velocity         |-> Zero3,
     acceleration     |-> Zero3,
     rotation         |-> Zero3,
     angularVelocity  |-> Zero3,
     mass             |-> 1000,
     gravityReduction |-> 892,
     speed            |-> 0,
     altitude         |-> 1000 * Scale,
     gForce           |-> 1 * Scale]

\* thrustForce, in the craft's frame, from the six flags.
ThrustForce(in) ==
    Vec((IF in.right THEN baseThrust * Scale ELSE 0)
          - (IF in.left THEN baseThrust * Scale ELSE 0),
        (IF in.up THEN baseThrust * Scale ELSE 0)
          - (IF in.down THEN baseThrust * Scale ELSE 0),
        (IF in.backward THEN baseThrust * Scale ELSE 0)
          - (IF in.forward THEN baseThrust * Scale ELSE 0))

\* A craft without the speed limit.
LimitSpeedOff(v) == v

\* Limit speed: velocity.normalize().multiplyScalar(maxSpeed) above maxSpeed.
LimitSpeed(v) ==
    LET len == Length(v)
    IN  IF len > maxSpeed * Scale
        THEN Vec(MulDiv(v.x, maxSpeed * Scale, len),
                 MulDiv(v.y, maxSpeed * Scale, len),
                 MulDiv(v.z, maxSpeed * Scale, len))
        ELSE v

\* The load factor without its floor.
GForceRaw(acc) == Quot(Length(acc) * Scale, gravityStrength)

\* Math.max(1, acceleration.length() / gravityStrength)
GForce(acc) == Max(1 * Scale, Quot(Length(acc) * Scale, gravityStrength))

\* v / mass
VOverMass(v, mass) == Vec(Quot(v.x, mass), Quot(v.y, mass), Quot(v.z, mass))

\* velocity.multiplyScalar(0.98)
Damp(v) == Vec(Quot(v.x * 98, 100), Quot(v.y * 98, 100), Quot(v.z * 98, 100))

\* updatePhysics, forces: acceleration = (0, -G * (1 - gravityReduction), 0)
\* plus the thrust turned into the world frame over the mass;
\* angularVelocity = (pitch * 2, yaw * 2, roll * 2).
Forces(s, in) ==
    [s EXCEPT
       !.acceleration =
          VAdd(Vec(0, 0 - Quot(gravityStrength * (AxisScale - s.gravityReduction),
                               AxisScale), 0),
               VOverMass(ApplyEuler(ThrustForce(in), s.rotation), s.mass)),
       !.angularVelocity = Vec(in.pitch * 2, in.yaw * 2, in.roll * 2)]

\* updatePhysics, velocity: add acceleration * dt, damp, limit.
Integrate(s, dt) ==
    [s EXCEPT !.velocity = LimitSpeed(Damp(VAdd(@, VTimesDt(s.acceleration, dt))))]

\* updatePhysics, position and rotation.
Advance(s, dt) ==
    [s EXCEPT !.position = VAdd(@, VTimesDt(s.velocity, dt)),
              !.rotation = VAdd(@, VTimesDt(s.angularVelocity, dt))]

\* updatePhysics, derived values.
Derive(s) ==
    [s EXCEPT !.speed    = Length(s.velocity),
              !.altitude = s.position.y,
              !.gForce   = GForce(s.acceleration)]

\* The craft state with its rotation advanced by the axes of in over dt.
TurnFirst(s, dt, in) ==
    [s EXCEPT !.rotation =
        VAdd(@, VTimesDt(Vec(in.pitch * 2, in.yaw * 2, in.roll * 2), dt))]

\* The craft state u with the rotation of t.
KeepRotation(u, t) == [u EXCEPT !.rotation = t.rotation]

\* An updatePhysics that turns the craft before it applies the thrust.
UpdatePhysicsTurnFirst(s, dt, in) ==
    KeepRotation(Derive(Advance(Integrate(Forces(TurnFirst(s, dt, in), in), dt), dt)),
                 TurnFirst(s, dt, in))

\* updatePhysics(deltaTime, input) on craft state s with inputState in.
UpdatePhysics(s, dt, in) == Derive(Advance(Integrate(Forces(s, in), dt), dt))

\* A reset that keeps the attitude of the craft.
ResetKeepsAttitude(s) ==
    [s EXCEPT !.position     = Vec(0, 1000 * Scale, 0),
              !.velocity     = Zero3,
              !.acceleration = Zero3,
              !.speed        = 0,
              !.altitude     = 1000 * Scale,
              !.gForce       = 1 * Scale]

\* reset()
Reset(s) ==
    [s EXCEPT !.position        = Vec(0, 1000 * Scale, 0),
              !.velocity        = Zero3,
              !.acceleration    = Zero3,
              !.rotation        = Zero3,
              !.angularVelocity = Zero3,
              !.speed           = 0,
              !.altitude        = 1000 * Scale,
              !.gForce          = 1 * Scale]

(***************************************************************************)
(* InputManager                                                            *)
(***************************************************************************)
\* The inputState built by the constructor.
InputInit ==
    [forward |-> FALSE, backward |-> FALSE, left |-> FALSE, right |-> FALSE,
     up |-> FALSE, down |-> FALSE,
     pitch |-> 0, yaw |-> 0, roll |-> 0,
     touch |-> [active |-> FALSE, x |-> 0, y |-> 0, deltaX |-> 0, deltaY |-> 0]]

\* An axis passed on as computed.
ClampOff(a) == a

\* Math.max(-1, Math.min(1, a)), a in 1/AxisScale.
Clamp(a) == Max(0 - AxisScale, Min(AxisScale, a))

\* An update() that adds the tilt terms to pitch and yaw whenever tilt is
\* enabled, inside the deadband too.
InputUpdateTiltAlways(in, held, enabled, g) ==
    [in EXCEPT
       !.forward  = ("KeyW" \in held) \/ ("ArrowUp" \in held),
       !.backward = ("KeyS" \in held) \/ ("ArrowDown" \in held),
       !.left     = ("KeyA" \in held) \/ ("ArrowLeft" \in held),
       !.right    = ("KeyD" \in held) \/ ("ArrowRight" \in held),
       !.up       = ("Space" \in held) \/ ("KeyQ" \in held),
       !.down     = ("ShiftLeft" \in held) \/ ("KeyE" \in held),
       !.pitch    = Clamp((IF in.touch.active THEN 0 - in.touch.deltaY * 2 ELSE 0)
                            + (IF enabled THEN g.beta * 5 ELSE 0)),
       !.yaw      = Clamp((IF in.touch.active THEN 0 - in.touch.deltaX * 2 ELSE 0)
                            + (IF enabled THEN g.alpha * 5 ELSE 0)),
       !.roll     = Clamp(IF enabled /\ Abs(g.gamma) > 5 THEN g.gamma * 10 ELSE 0)]

\* An update() that reads one key for each flag.
InputUpdateFirstKey(in, held, enabled, g) ==
    [in EXCEPT
       !.forward  = "KeyW" \in held,
       !.backward = "KeyS" \in held,
       !.left     = "KeyA" \in held,
       !.right    = "KeyD" \in held,
       !.up       = "Space" \in held,
       !.down     = "ShiftLeft" \in held]

\* update(): the flags from the held keys, the axes from the contact record
\* and the orientation angles (sensitivity 0.002, gains 0.01 and 0.005).
InputUpdate(in, held, enabled, g) ==
    LET dragYaw   == IF in.touch.active THEN 0 - in.touch.deltaX * 2 ELSE 0
        dragPitch == IF in.touch.active THEN 0 - in.touch.deltaY * 2 ELSE 0
        tilt      == enabled /\ Abs(g.gamma) > 5
        roll      == IF tilt THEN g.gamma * 10 ELSE 0
        pitch     == IF tilt THEN dragPitch + g.beta * 5 ELSE dragPitch
        yaw       == IF tilt THEN dragYaw + g.alpha * 5 ELSE dragYaw
    IN  [in EXCEPT
           !.forward  = ("KeyW" \in held) \/ ("ArrowUp" \in held),
           !.backward = ("KeyS" \in held) \/ ("ArrowDown" \in held),
           !.left     = ("KeyA" \in held) \/ ("ArrowLeft" \in held),
           !.right    = ("KeyD" \in held) \/ ("ArrowRight" \in held),
           !.up       = ("Space" \in held) \/ ("KeyQ" \in held),
           !.down     = ("ShiftLeft" \in held) \/ ("KeyE" \in held),
           !.pitch    = Clamp(pitch),
           !.yaw      = Clamp(yaw),
           !.roll     = Clamp(roll)]

\* requestGyroscopePermission() runs to its first await inside the constructor:
\* where permission must be asked the answer is pending; elsewhere tilt is
\* enabled at once, or never when the host has no DeviceOrientationEvent.
Platforms ==
    {[enabled |-> FALSE, permission |-> "pending"],
     [enabled |-> TRUE,  permission |-> "settled"],
     [enabled |-> FALSE, permission |-> "settled"]}

\* A request whose every answer enables tilt.
PermissionSettledEnables(answer) ==
    /\ permission = "pending"
    /\ permission' = answer
    /\ gyroscopeEnabled' = TRUE
    /\ UNCHANGED <<lastAct, again, lastArg, snapshotVars>>
    /\ UNCHANGED <<inputState, keys, lastTouchX, lastTouchY, gyro>>
    /\ UNCHANGED <<craftVars, engineVars, gameState, deltaTime, ticks>>

\* The answer to requestPermission(): gyroscopeEnabled = (answer = "granted");
\* a rejected request leaves the flag as it is.
PermissionSettled(answer) ==
    /\ permission = "pending"
    /\ permission' = answer
    /\ gyroscopeEnabled' = IF answer = "rejected" THEN gyroscopeEnabled
                           ELSE answer = "granted"
    /\ UNCHANGED <<lastAct, again, lastArg, snapshotVars>>
    /\ UNCHANGED <<inputState, keys, lastTouchX, lastTouchY, gyro>>
    /\ UNCHANGED <<craftVars, engineVars, gameState, deltaTime, ticks>>

\* handleKeyDown
KeyDown(code) ==
    /\ keys' = keys \cup {code}
    /\ UNCHANGED <<lastAct, again, lastArg, snapshotVars>>
    /\ UNCHANGED <<inputState, lastTouchX, lastTouchY, gyroscopeEnabled, gyro,
                   permission>>
    /\ UNCHANGED <<craftVars, engineVars, gameState, deltaTime, ticks>>

\* handleKeyUp
KeyUp(code) ==
    /\ keys' = keys \ {code}
    /\ UNCHANGED <<lastAct, again, lastArg, snapshotVars>>
    /\ UNCHANGED <<inputState, lastTouchX, lastTouchY, gyroscopeEnabled, gyro,
                   permission>>
    /\ UNCHANGED <<craftVars, engineVars, gameState, deltaTime, ticks>>

\* The contact record after a contact starts at (px, py).
ContactStart(in, px, py) ==
    [in EXCEPT !.touch.active = TRUE, !.touch.x = px, !.touch.y = py]

\* The contact record after a move to (px, py).
ContactMove(in, px, py) ==
    [in EXCEPT !.touch.deltaX = px - lastTouchX, !.touch.deltaY = py - lastTouchY]

\* The contact record after the contact ends.
ContactEnd(in) ==
    [in EXCEPT !.touch.active = FALSE, !.touch.deltaX = 0, !.touch.deltaY = 0]

\* handleTouchStart
TouchStart(px, py) ==
    /\ inputState' = ContactStart(inputState, px, py)
    /\ lastTouchX' = px
    /\ lastTouchY' = py
    /\ lastAct' = "pointer"
    /\ UNCHANGED <<again, lastArg, snapshotVars>>
    /\ UNCHANGED <<keys, gyroscopeEnabled, gyro, permission>>
    /\ UNCHANGED <<craftVars, engineVars, gameState, deltaTime, ticks>>

\* handleTouchMove
TouchMove(px, py) ==
    /\ lastAct' = "pointer"
    /\ UNCHANGED <<again, lastArg, snapshotVars>>
    /\ IF inputState.touch.active
       THEN /\ inputState' = ContactMove(inputState, px, py)
            /\ lastTouchX' = px
            /\ lastTouchY' = py
       ELSE UNCHANGED <<inputState, lastTouchX, lastTouchY>>
    /\ UNCHANGED <<keys, gyroscopeEnabled, gyro, permission>>
    /\ UNCHANGED <<craftVars, engineVars, gameState, deltaTime, ticks>>

\* handleTouchEnd
TouchEnd ==
    /\ inputState' = ContactEnd(inputState)
    /\ lastAct' = "pointer"
    /\ UNCHANGED <<again, lastArg, snapshotVars>>
    /\ UNCHANGED <<keys, lastTouchX, lastTouchY, gyroscopeEnabled, gyro,
                   permission>>
    /\ UNCHANGED <<craftVars, engineVars, gameState, deltaTime, ticks>>

\* handleMouseDown
MouseDown(px, py) ==
    /\ inputState' = ContactStart(inputState, px, py)
    /\ lastTouchX' = px
    /\ lastTouchY' = py
    /\ lastAct' = "pointer"
    /\ UNCHANGED <<again, lastArg, snapshotVars>>
    /\ UNCHANGED <<keys, gyroscopeEnabled, gyro, permission>>
    /\ UNCHANGED <<craftVars, engineVars, gameState, deltaTime, ticks>>

\* handleMouseMove
MouseMove(px, py) ==
    /\ lastAct' = "pointer"
    /\ UNCHANGED <<again, lastArg, snapshotVars>>
    /\ IF inputState.touch.active
       THEN /\ inputState' = ContactMove(inputState, px, py)
            /\ lastTouchX' = px
            /\ lastTouchY' = py
       ELSE UNCHANGED <<inputState, lastTouchX, lastTouchY>>
    /\ UNCHANGED <<keys, gyroscopeEnabled, gyro, permission>>
    /\ UNCHANGED <<craftVars, engineVars, gameState, deltaTime, ticks>>

\* handleMouseUp
MouseUp ==
    /\ inputState' = ContactEnd(inputState)
    /\ lastAct' = "pointer"
    /\ UNCHANGED <<again, lastArg, snapshotVars>>
    /\ UNCHANGED <<keys, lastTouchX, lastTouchY, gyroscopeEnabled, gyro,
                   permission>>
    /\ UNCHANGED <<craftVars, engineVars, gameState, deltaTime, ticks>>

\* handleDeviceOrientation: o holds event.alpha || 0, event.beta || 0,
\* event.gamma || 0.
DeviceOrientation(o) ==
    /\ UNCHANGED <<lastAct, again, lastArg, snapshotVars>>
    /\ gyro' = IF gyroscopeEnabled THEN o ELSE gyro
    /\ UNCHANGED <<inputState, keys, lastTouchX, lastTouchY, gyroscopeEnabled,
                   permission>>
    /\ UNCHANGED <<craftVars, engineVars, gameState, deltaTime, ticks>>

\* InputManager.update() called on its own.
InputUpdateStep ==
    /\ inputState' = InputUpdate(inputState, keys, gyroscopeEnabled, gyro)
    /\ lastAct' = "inputupdate"
    /\ again' = FALSE
    /\ lastArg' = NoArg
    /\ UNCHANGED snapshotVars
    /\ UNCHANGED <<keys, lastTouchX, lastTouchY, gyroscopeEnabled, gyro,
                   permission>>
    /\ UNCHANGED <<craftVars, engineVars, gameState, deltaTime, ticks>>

(***************************************************************************)
(* GameState (App)                                                         *)
(***************************************************************************)
\* initialGameState; position and velocity are Vector3 values.
initialGameState ==
    [gameMode       |-> "menu",
     currentMission |-> "null",
     position       |-> Vec(0, 1000 * Scale, 0),
     velocity       |-> Zero3,
     altitude       |-> 1000 * Scale,
     speed          |-> 0,
     gForce         |-> 1 * Scale,
     systems        |-> [propulsion |-> TRUE, cloaking |-> FALSE, sensors |-> TRUE]]

(***************************************************************************)
(* Initial state: the engine and its subsystems constructed, initialize()  *)
(* not yet called                                                          *)
(***************************************************************************)
InitOn(platform) ==
    /\ state = CraftInit
    /\ inputState = InputInit
    /\ keys = {}
    /\ lastTouchX = 0
    /\ lastTouchY = 0
    /\ gyroscopeEnabled = platform.enabled
    /\ permission = platform.permission
    /\ gyro = [alpha |-> 0, beta |-> 0, gamma |-> 0]
    /\ isInitialized = FALSE
    /\ isPaused = FALSE
    /\ animationId = 0
    /\ frames = {}
    /\ clock = [running |-> FALSE, since |-> 0]
    /\ initCalls = 0
    /\ systems = [propulsion |-> [isActive |-> TRUE],
                  cloaking   |-> [isActive |-> FALSE, cloakMaterial |-> FALSE,
                                  cloakIntensity |-> 0],
                  sensors    |-> [isActive |-> TRUE],
                  environment |-> [mission |-> "null"]]
    /\ gameState = initialGameState
    /\ deltaTime = 0
    /\ ticks = 0
    /\ disposed = FALSE
    /\ lastAct = "new"
    /\ again = FALSE
    /\ lastArg = NoArg
    /\ craftSnapshot = [taken |-> FALSE, own |-> CraftInit]
    /\ inputSnapshot = [taken |-> FALSE, own |-> InputInit]

\* A host with orientation events and no permission to ask for.
Init == InitOn([enabled |-> TRUE, permission |-> "settled"])

\* Any host.
InitInput == \E p \in Platforms : InitOn(p)

(***************************************************************************)
(* Flight dynamics on its own: update(deltaTime, input) and reset() called *)
(* in any order with any control input                                     *)
(***************************************************************************)
\* An inputState with the flags of f set and the given axes.
Ctl(f, p, y, r) ==
    [InputInit EXCEPT !.forward = "forward" \in f, !.backward = "backward" \in f,
                      !.left = "left" \in f, !.right = "right" \in f,
                      !.up = "up" \in f, !.down = "down" \in f,
                      !.pitch = p, !.yaw = y, !.roll = r]

FlightControls ==
    {Ctl({}, 0, 0, 0),
     Ctl({"up"}, 0, 0, 0),
     Ctl({"forward", "right", "down"}, 0, 0, 0),
     Ctl({"up", "down"}, 1000, 0, 0),
     Ctl({"forward"}, 0, -500, 1000),
     Ctl({"backward", "left"}, -1000, 250, 0)}

\* 0 s, 0.1 s, 1 s and 1500 s (a frame after a long suspension).
FlightDts == {0, 1, 10, 15000}

\* CraftController.update(dt, input): updatePhysics.
FlightUpdate(dt, in) ==
    /\ ticks < MaxFlightTicks
    /\ state' = UpdatePhysics(state, dt, in)
    /\ inputState' = in
    /\ deltaTime' = dt
    /\ ticks' = ticks + 1
    /\ lastAct' = "update"
    /\ again' = FALSE
    /\ lastArg' = NoArg
    /\ UNCHANGED snapshotVars
    /\ UNCHANGED <<keys, lastTouchX, lastTouchY, gyroscopeEnabled, gyro,
                   permission, engineVars, gameState>>

\* CraftController.reset()
FlightReset ==
    /\ state' = Reset(state)
    /\ lastAct' = "reset"
    /\ again' = FALSE
    /\ lastArg' = NoArg
    /\ UNCHANGED snapshotVars
    /\ UNCHANGED <<inputVars, engineVars, gameState, deltaTime, ticks>>

NextFlight ==
    \/ \E dt \in FlightDts, in \in FlightControls : FlightUpdate(dt, in)
    \/ FlightReset

SpecFlight == Init /\ [][NextFlight]_vars

\* The control input with only the up flag set.
UpOnly == Ctl({"up"}, 0, 0, 0)

\* C1: from the constructed / reset CraftState, one update with dt = 0.1 s and
\* only up = true leaves velocity.y > 0 and altitude > 1000.
C1_UpThrustClimbs ==
    [][(state = CraftInit /\ lastAct' = "update" /\ deltaTime' = 1
          /\ inputState' = UpOnly)
       => (state'.velocity.y > 0 /\ state'.altitude > 1000 * Scale)]_vars

\* C2: after every update, whatever the flags, the axes in [-1, 1] and the
\* dt >= 0 of the calls so far, the magnitude of velocity is at most maxSpeed.
C2_SpeedLimited == Length(state.velocity) <= maxSpeed * Scale

\* An update whose dt carried the velocity to the limit.
C2_Witness ==
    /\ lastAct = "update"
    /\ deltaTime = 15000
    /\ state.speed > (maxSpeed - 1) * Scale

\* C3: gForce >= 1 in every reachable CraftState: constructed, updated, reset.
C3_GForceAtLeastOne == state.gForce >= 1 * Scale

\* An update whose acceleration is less than one G.
C3_Witness ==
    /\ lastAct = "update"
    /\ state.acceleration # Zero3
    /\ Quot(Length(state.acceleration) * Scale, gravityStrength) < 1 * Scale
    /\ state.gForce = 1 * Scale

\* C5: reset() after any updates gives exactly the constructed CraftState, and
\* a second reset() leaves what the first one gave.
C5_ResetRestores ==
    [][lastAct' = "reset" => (state' = CraftInit /\ Reset(state') = state')]_vars

\* A reset after three updates.
C5_Witness == lastAct = "reset" /\ ticks = MaxFlightTicks /\ state = CraftInit

\* The control input in with its three axes at rest.
AxesAtRest(in) == [in EXCEPT !.pitch = 0, !.yaw = 0, !.roll = 0]

\* Craft states a and b agree on acceleration, velocity and position.
SameTranslation(a, b) ==
    /\ a.acceleration = b.acceleration
    /\ a.velocity = b.velocity
    /\ a.position = b.position

\* C21: within one update the thrust is turned into the world frame by the
\* rotation the previous tick left; the axes of this tick move the rotation
\* only after velocity and position are integrated, so acceleration, velocity
\* and position of the tick are what they would be with the axes at rest.
C21_AxesActNextTick ==
    [][lastAct' = "update"
         => /\ state'.acceleration =
                 VAdd(Vec(0, 0 - Quot(gravityStrength
                                        * (AxisScale - state.gravityReduction),
                                      AxisScale), 0),
                      VOverMass(ApplyEuler(ThrustForce(inputState'),
                                           state.rotation), state.mass))
            /\ SameTranslation(state',
                   UpdatePhysics(state, deltaTime', AxesAtRest(inputState')))
            /\ state'.rotation =
                 VAdd(state.rotation,
                      VTimesDt(Vec(inputState'.pitch * 2, inputState'.yaw * 2,
                                   inputState'.roll * 2), deltaTime'))]_vars

\* The first update, 1 s long, with forward thrust, yaw and roll: the craft
\* has turned but the thrust of the tick acted straight along -z.
C21_Witness ==
    /\ lastAct = "update"
    /\ ticks = 1
    /\ deltaTime = 10
    /\ inputState = Ctl({"forward"}, 0, -500, 1000)
    /\ state.rotation.y # 0
    /\ state.rotation.z # 0
    /\ state.acceleration.x = 0
    /\ state.acceleration.z = 0 - Quot(baseThrust * Scale, state.mass)

\* C27: gForce is exactly 1 in every reachable CraftState, whatever the
\* inputs: thrust over mass (at most 0.5 per axis) and the reduced gravity
\* (1.06) stay far below one G, so the HUD's warning condition gForce > 5 is
\* never met.
C27_GForceAlwaysOne ==
    /\ state.gForce = 1 * Scale
    /\ ~(state.gForce > 5 * Scale)

\* An update with thrust on all three axes, downwards with gravity: the
\* largest acceleration the flags can give, reported as 1.
C27_Witness ==
    /\ lastAct = "update"
    /\ inputState = Ctl({"forward", "right", "down"}, 0, 0, 0)
    /\ Length(state.acceleration) > 150
    /\ Quot(Length(state.acceleration) * Scale, gravityStrength) < 1 * Scale
    /\ state.gForce = 1 * Scale

(***************************************************************************)
(* Snapshots of the CraftState: getState() returns { ...this.state }, a    *)
(* new object holding the numbers of the state and references to its       *)
(* position, velocity, acceleration, rotation and angularVelocity objects, *)
(* which update() and reset() write in place                               *)
(***************************************************************************)
\* CraftController.getState() on craft state s: the numbers as they are now.
GetState(s) == [taken |-> TRUE, own |-> s]

\* What the holder of snapshot snap reads while the craft state is s: its own
\* numbers, and the craft's vector objects.
SnapshotValue(snap, s) ==
    [snap.own EXCEPT !.position        = s.position,
                     !.velocity        = s.velocity,
                     !.acceleration    = s.acceleration,
                     !.rotation        = s.rotation,
                     !.angularVelocity = s.angularVelocity]

CraftSnapshotValue == SnapshotValue(craftSnapshot, state)

\* An observer calls getState() and keeps the result.
CraftGetState ==
    /\ craftSnapshot' = GetState(state)
    /\ lastAct' = "getState"
    /\ again' = FALSE
    /\ lastArg' = NoArg
    /\ UNCHANGED <<state, inputSnapshot>>
    /\ UNCHANGED <<inputVars, engineVars, gameState, deltaTime, ticks>>

\* The observer writes the position of the snapshot it holds:
\* snapshot.position.set(v.x, v.y, v.z).
CraftSnapshotSet(v) ==
    /\ craftSnapshot.taken
    /\ state' = [state EXCEPT !.position = v]
    /\ lastAct' = "mutate"
    /\ again' = FALSE
    /\ lastArg' = NoArg
    /\ UNCHANGED snapshotVars
    /\ UNCHANGED <<inputVars, engineVars, gameState, deltaTime, ticks>>

SnapshotDts == {1, 10}

SnapshotControls == {UpOnly, Ctl({"forward"}, 0, -500, 1000)}

NextSnapshot ==
    \/ \E dt \in SnapshotDts, in \in SnapshotControls : FlightUpdate(dt, in)
    \/ FlightReset
    \/ CraftGetState
    \/ CraftSnapshotSet(Vec(1 * Scale, 2 * Scale, 3 * Scale))

SpecSnapshot == Init /\ [][NextSnapshot]_vars

\* C13: a snapshot returned by getState() shares nothing with the craft's
\* state: later updates and reset() do not change what its holder reads, and
\* writing its position does not change the craft's state.
C13_SnapshotIsolated ==
    [][(craftSnapshot.taken /\ craftSnapshot' = craftSnapshot)
         => /\ lastAct' \in {"update", "reset"}
                 => CraftSnapshotValue' = CraftSnapshotValue
            /\ lastAct' = "mutate" => state' = state]_vars

(***************************************************************************)
(* Input fusion on its own: raw events and update() in any order           *)
(***************************************************************************)
InputKeys == {"KeyW", "Space"}

\* Pointer / touch positions (clientX, clientY).
InputPoints == {<<0, 0>>, <<600, -200>>}

\* Orientation samples: inside the deadband, tilted, tilted hard.
InputOrientations ==
    {[alpha |-> 40,  beta |-> 20,  gamma |-> 3],
     [alpha |-> 90,  beta |-> -45, gamma |-> 30],
     [alpha |-> 300, beta |-> 10,  gamma |-> -150]}

PermissionAnswers == {"granted", "denied", "rejected"}

NextInput ==
    \/ \E k \in InputKeys : KeyDown(k)
    \/ \E k \in InputKeys : KeyUp(k)
    \/ \E p \in InputPoints : TouchStart(p[1], p[2])
    \/ \E p \in InputPoints : TouchMove(p[1], p[2])
    \/ TouchEnd
    \/ \E p \in InputPoints : MouseDown(p[1], p[2])
    \/ \E p \in InputPoints : MouseMove(p[1], p[2])
    \/ MouseUp
    \/ \E o \in InputOrientations : DeviceOrientation(o)
    \/ \E a \in PermissionAnswers : PermissionSettled(a)
    \/ InputUpdateStep

SpecInput == InitInput /\ [][NextInput]_vars

\* C4: under any interleaving of key, pointer / touch and orientation events
\* with update(), pitch, yaw and roll of getState() are within [-1, 1].
C4_AxesWithinUnit ==
    /\ Abs(inputState.pitch) <= AxisScale
    /\ Abs(inputState.yaw) <= AxisScale
    /\ Abs(inputState.roll) <= AxisScale

\* An update() during a drag of 600 px with the device tilted 150 degrees:
\* yaw and roll computed beyond the range and reported at its ends.
C4_Witness ==
    /\ lastAct = "inputupdate"
    /\ inputState.touch.active
    /\ Abs(inputState.touch.deltaX * 2) > AxisScale
    /\ Abs(inputState.yaw) = AxisScale
    /\ gyroscopeEnabled
    /\ Abs(gyro.gamma * 10) > AxisScale
    /\ Abs(inputState.roll) = AxisScale

\* A step of update(): the axes are recomputed, the sources are as they were.
IsInputUpdate ==
    /\ lastAct' = "inputupdate"
    /\ inputState'.touch = inputState.touch
    /\ UNCHANGED <<keys, lastTouchX, lastTouchY, gyroscopeEnabled, gyro,
                   permission>>

\* C17: once the tilt permission is denied or its request has failed, tilt
\* stays disabled: orientation events are ignored, and every update() gives
\* roll = 0 and the pitch and yaw of the drag alone (0 without a contact).
C17_DeniedTiltStaysOff ==
    [][permission' \in {"denied", "rejected"}
         => /\ ~gyroscopeEnabled'
            /\ gyro' = [alpha |-> 0, beta |-> 0, gamma |-> 0]
            /\ IsInputUpdate
                 => /\ inputState'.roll = 0
                    /\ inputState'.pitch =
                         IF inputState.touch.active
                         THEN Clamp(0 - inputState.touch.deltaY * 2) ELSE 0
                    /\ inputState'.yaw =
                         IF inputState.touch.active
                         THEN Clamp(0 - inputState.touch.deltaX * 2) ELSE 0]_vars

\* After a denied request, an update() during a drag: pitch and yaw follow
\* the drag, roll is 0.
C17_Witness ==
    /\ permission = "denied"
    /\ lastAct = "inputupdate"
    /\ inputState.touch.active
    /\ inputState.touch.deltaY = -200
    /\ inputState.pitch = 400
    /\ inputState.yaw = 0 - AxisScale
    /\ inputState.roll = 0

\* The drag and tilt terms update() combines, from the sources as a step of
\* update() finds them (axes in 1/AxisScale: 0.002 per pixel, 0.01 and 0.005
\* per degree).
DragTerm(d) == IF inputState.touch.active THEN 0 - d * 2 ELSE 0

TiltEngaged == gyroscopeEnabled /\ Abs(gyro.gamma) > 5

\* C19: update() gives pitch = clamp(-deltaY * 0.002 + beta * 0.005),
\* yaw = clamp(-deltaX * 0.002 + alpha * 0.005), roll = clamp(gamma * 0.01),
\* the drag terms only while a contact is active, the tilt terms only while
\* tilt is enabled and |gamma| > 5; with neither, all three are exactly 0.
C19_AxesAsSpecified ==
    [][IsInputUpdate
         => /\ inputState'.pitch =
                 Clamp(DragTerm(inputState.touch.deltaY)
                         + (IF TiltEngaged THEN gyro.beta * 5 ELSE 0))
            /\ inputState'.yaw =
                 Clamp(DragTerm(inputState.touch.deltaX)
                         + (IF TiltEngaged THEN gyro.alpha * 5 ELSE 0))
            /\ inputState'.roll =
                 Clamp(IF TiltEngaged THEN gyro.gamma * 10 ELSE 0)
            /\ (~inputState.touch.active /\ ~TiltEngaged)
                 => /\ inputState'.pitch = 0
                    /\ inputState'.yaw = 0
                    /\ inputState'.roll = 0]_vars

\* An update() during a drag of (600, -200) px with the device tilted to
\* alpha 90, beta -45, gamma 30: pitch 0.4 - 0.225, yaw -1.2 + 0.45, roll 0.3.
C19_Witness ==
    /\ lastAct = "inputupdate"
    /\ inputState.touch.active
    /\ inputState.touch.deltaX = 600
    /\ inputState.touch.deltaY = -200
    /\ gyroscopeEnabled
    /\ gyro = [alpha |-> 90, beta |-> -45, gamma |-> 30]
    /\ inputState.pitch = 175
    /\ inputState.yaw = -750
    /\ inputState.roll = 300

\* C20: while a contact stays active, an update() that follows an update()
\* with no pointer event in between finds no displacement left to consume:
\* its pitch and yaw carry no drag term, only the tilt terms.
C20_DeltaConsumedOnce ==
    [][(IsInputUpdate /\ lastAct = "inputupdate" /\ inputState.touch.active)
         => /\ inputState'.pitch =
                 Clamp(IF TiltEngaged THEN gyro.beta * 5 ELSE 0)
            /\ inputState'.yaw =
                 Clamp(IF TiltEngaged THEN gyro.alpha * 5 ELSE 0)]_vars

(***************************************************************************)
(* The keyboard on its own: any keys pressed and released, and update()    *)
(***************************************************************************)
\* The key codes update() reads for each thrust flag.
KeyBindings ==
    [forward  |-> {"KeyW", "ArrowUp"},
     backward |-> {"KeyS", "ArrowDown"},
     left     |-> {"KeyA", "ArrowLeft"},
     right    |-> {"KeyD", "ArrowRight"},
     up       |-> {"Space", "KeyQ"},
     down     |-> {"ShiftLeft", "KeyE"}]

\* The keys pressed: the bound ones and one that is bound to nothing.
AllKeys == UNION {KeyBindings[f] : f \in DOMAIN KeyBindings} \cup {"KeyX"}

\* Most keys held at a time.
MaxHeld == 3

NextKeys ==
    \/ \E k \in AllKeys : Cardinality(keys \cup {k}) <= MaxHeld /\ KeyDown(k)
    \/ \E k \in AllKeys : KeyUp(k)
    \/ InputUpdateStep

SpecKeys == Init /\ [][NextKeys]_vars

\* C18: after any key-down and key-up events, update() leaves each of the six
\* thrust flags true exactly when one of the keys bound to it is held.
C18_FlagsFollowKeys ==
    [][IsInputUpdate
         => \A f \in DOMAIN KeyBindings :
               inputState'[f] = (KeyBindings[f] \cap keys # {})]_vars

\* An update() with the second key of forward, a key of down and an unbound
\* key held.
C18_Witness ==
    /\ lastAct = "inputupdate"
    /\ keys = {"ArrowUp", "KeyE", "KeyX"}
    /\ inputState.forward
    /\ inputState.down
    /\ ~inputState.backward
    /\ ~inputState.left
    /\ ~inputState.right
    /\ ~inputState.up

(***************************************************************************)
(* Snapshots of the inputState: getState() returns { ...this.inputState }, *)
(* a new object holding the flags and axes and a reference to the touch    *)
(* record, which the contact handlers write in place                       *)
(***************************************************************************)
\* InputManager.getState() on inputState in: the flags and axes as they are.
InputGetStateOf(in) == [taken |-> TRUE, own |-> in]

\* What the holder of snapshot snap reads while the inputState is in: its own
\* flags and axes, and the manager's touch record.
InputSnapshotValueOf(snap, in) == [snap.own EXCEPT !.touch = in.touch]

InputSnapshotValue == InputSnapshotValueOf(inputSnapshot, inputState)

\* A caller of getState() keeps the result.
InputGetState ==
    /\ inputSnapshot' = InputGetStateOf(inputState)
    /\ lastAct' = "getState"
    /\ again' = FALSE
    /\ lastArg' = NoArg
    /\ UNCHANGED <<inputVars, craftSnapshot>>
    /\ UNCHANGED <<craftVars, engineVars, gameState, deltaTime, ticks>>

\* The holder writes the contact record of its snapshot:
\* snapshot.touch.active = a.
InputSnapshotSet(a) ==
    /\ inputSnapshot.taken
    /\ inputState' = [inputState EXCEPT !.touch.active = a]
    /\ lastAct' = "mutate"
    /\ again' = FALSE
    /\ lastArg' = NoArg
    /\ UNCHANGED snapshotVars
    /\ UNCHANGED <<keys, lastTouchX, lastTouchY, gyroscopeEnabled, gyro,
                   permission>>
    /\ UNCHANGED <<craftVars, engineVars, gameState, deltaTime, ticks>>

NextInputSnapshot ==
    \/ KeyDown("KeyW")
    \/ KeyUp("KeyW")
    \/ \E p \in InputPoints : TouchStart(p[1], p[2])
    \/ \E p \in InputPoints : TouchMove(p[1], p[2])
    \/ TouchEnd
    \/ InputUpdateStep
    \/ InputGetState
    \/ \E a \in BOOLEAN : InputSnapshotSet(a)

SpecInputSnapshot == Init /\ [][NextInputSnapshot]_vars

\* C14: a ControlInput returned by getState() is a copy: later contact events
\* and update() calls do not change what its holder reads, contact record
\* included, and a write to it does not change the manager's inputState.
C14_InputSnapshotIsolated ==
    [][(inputSnapshot.taken /\ inputSnapshot' = inputSnapshot)
         => /\ lastAct' # "mutate" => InputSnapshotValue' = InputSnapshotValue
            /\ (lastAct # "mutate" /\ lastAct' = "mutate")
                 => inputState' = inputState]_vars

(***************************************************************************)
(* GameEngine                                                              *)
(*                                                                         *)
(* The methods are operators on a record w of the values a handler may     *)
(* change; an action applies its handler to the current values (World) and *)
(* commits the result.                                                     *)
(***************************************************************************)
\* Longest run of ticks explored by the engine specification.
MaxTicks == 2

\* initialize() calls that may await Promise.all at the same time.
MaxInitCalls == 1

World ==
    [state |-> state, inputState |-> inputState, isPaused |-> isPaused,
     animationId |-> animationId, frames |-> frames, clock |-> clock,
     systems |-> systems, gameState |-> gameState, deltaTime |-> deltaTime,
     ticks |-> ticks]

\* The handler's result w becomes the next state; a result with one more
\* tick only while the run has at most n ticks.
CommitWithin(w, n) ==
    /\ w.ticks = ticks \/ w.ticks <= n
    /\ state' = w.state
    /\ inputState' = w.inputState
    /\ isPaused' = w.isPaused
    /\ animationId' = w.animationId
    /\ frames' = w.frames
    /\ clock' = w.clock
    /\ systems' = w.systems
    /\ gameState' = w.gameState
    /\ deltaTime' = w.deltaTime
    /\ ticks' = w.ticks

Commit(w) == CommitWithin(w, MaxTicks)

\* useGameState.updateGameState(updates): the updates spread over the
\* previous state, systems merged field by field.
UpdateGameState(gs, updates) ==
    [f \in DOMAIN gs |->
        IF f \notin DOMAIN updates THEN gs[f]
        ELSE IF f = "systems"
             THEN [n \in DOMAIN gs.systems |->
                     IF n \in DOMAIN updates.systems THEN updates.systems[n]
                     ELSE gs.systems[n]]
             ELSE updates[f]]

\* Each effect module declares the field isActive and the method isActive():
\* the field of the instance hides the method, and the call
\* this.propulsion.isActive() in update() throws a TypeError.
IsActiveCallThrows == TRUE

\* THREE.Clock.getDelta(): 0 on the call that starts the clock, else the host
\* time since the previous call.
GetDelta(c) == IF c.running THEN c.since ELSE 0

\* CloakingSystem.update(deltaTime, craftState): nothing without the
\* material; else cloakIntensity (in 1/AxisScale) moves towards 1 or 0 by
\* (target - cloakIntensity) * dt * 2.
CloakingUpdate(c, dt) ==
    IF ~c.cloakMaterial THEN c
    ELSE [c EXCEPT !.cloakIntensity =
            @ + Quot(((IF c.isActive THEN AxisScale ELSE 0) - @) * dt * 2,
                     TimeScale)]

\* update(), the effect modules.  PropulsionSystem.update and
\* SensorSystem.update return at once when their isActive is false and
\* otherwise advance angles, particles and uniforms of their meshes, which
\* are not kept here; CloakingSystem.update has no such test.
UpdateSystems(w, dt) ==
    [w EXCEPT !.systems.cloaking = CloakingUpdate(@, dt)]

\* update(), the clock, the input and the craft: the clock is read, the
\* input fused, the craft moved.
StepCraft(w, dt, in) ==
    [w EXCEPT !.clock      = [running |-> TRUE, since |-> 0],
              !.inputState = in,
              !.state      = UpdatePhysics(@, dt, in),
              !.deltaTime  = dt,
              !.ticks      = @ + 1]

\* update(), first half: the clock, the input, the craft, the effect modules.
Step(w, dt, in) == UpdateSystems(StepCraft(w, dt, in), dt)

\* The snapshot update() hands to onStateUpdate.
Snapshot(w) ==
    [position |-> w.state.position, velocity |-> w.state.velocity,
     altitude |-> w.state.altitude, speed |-> w.state.speed,
     gForce |-> w.state.gForce,
     systems |-> [n \in {"propulsion", "cloaking", "sensors"} |->
                    w.systems[n].isActive]]

\* update(), second half: the snapshot is published only if its arguments
\* can be evaluated.
Publish(w) ==
    [w EXCEPT !.gameState = IF IsActiveCallThrows THEN @
                            ELSE UpdateGameState(@, Snapshot(w))]

\* update(): one tick.
Update(w) ==
    Publish(Step(w, GetDelta(w.clock),
                 InputUpdate(w.inputState, keys, gyroscopeEnabled, gyro)))

\* A frame callback that does not look at isPaused.
AnimateUnguarded(w) ==
    Update([w EXCEPT !.animationId = w.ticks + 1,
                     !.frames = @ \cup {w.ticks + 1}])

\* animate(): the frame callback of start().  requestAnimationFrame returns a
\* fresh non-zero handle.
Animate(w) ==
    IF w.isPaused THEN w
    ELSE Update([w EXCEPT !.animationId = w.ticks + 1,
                          !.frames = @ \cup {w.ticks + 1}])

\* A start() that does not look at animationId.
StartUnguarded(w) == Animate(w)

\* start()
Start(w) == IF w.animationId # 0 THEN w ELSE Animate(w)

\* A pause() that forgets the handle of the pending frame callback without
\* cancelling it.
PauseKeepsFrame(w) == [w EXCEPT !.isPaused = TRUE, !.animationId = 0]

\* pause()
Pause(w) ==
    [w EXCEPT !.isPaused = TRUE,
              !.frames = IF w.animationId # 0 THEN @ \ {w.animationId} ELSE @,
              !.animationId = 0]

\* resume()
Resume(w) == Start([w EXCEPT !.isPaused = FALSE])

\* startMission(mission): environment.loadMission, craft.reset, start.
StartMission(w, mission) ==
    Start([w EXCEPT !.systems.environment.mission = mission,
                    !.state = Reset(@),
                    !.isPaused = FALSE])

\* The effect modules with an active flag.
Modules == {"propulsion", "cloaking", "sensors"}

\* A dispatch that forwards the flag to every module.
ToggleSystemAll(w, system, enabled) ==
    [w EXCEPT !.systems = [n \in DOMAIN @ |->
                             IF n \in Modules THEN [@[n] EXCEPT !.isActive = enabled]
                             ELSE @[n]]]

\* toggleSystem(system, enabled)
ToggleSystem(w, system, enabled) ==
    IF system \in {"propulsion", "cloaking", "sensors"}
    THEN [w EXCEPT !.systems[system].isActive = enabled]
    ELSE w

\* The subsystems' initialize() bodies: CloakingSystem builds its material;
\* the meshes the craft, PropulsionSystem, SensorSystem and Environment build
\* and add to the scene are not kept here.
InitializeSystems(sys) == [sys EXCEPT !.cloaking.cloakMaterial = TRUE]

\* initialize(), up to its await: the subsystems' initialize() bodies have
\* run and the call waits for Promise.all, at most n calls waiting at a time.
InitializeWithin(n) ==
    /\ lastAct' = "initialize"
    /\ again' = FALSE
    /\ lastArg' = NoArg
    /\ UNCHANGED snapshotVars
    /\ IF isInitialized THEN UNCHANGED <<initCalls, systems>>
       ELSE /\ initCalls < n
            /\ initCalls' = initCalls + 1
            /\ systems' = InitializeSystems(systems)
    /\ UNCHANGED <<craftVars, inputVars, isInitialized, isPaused, animationId,
                   frames, clock, disposed, gameState,
                   deltaTime, ticks>>

Initialize == InitializeWithin(MaxInitCalls)

\* The modules initialize() waits for: the craft and the five effect modules.
InitModules ==
    {"craft", "propulsion", "cloaking", "sensors", "environment", "audio"}

\* Promise.all over the modules' initialize() when that of module f throws
\* ("none": no module fails): AudioSystem.initialize catches its own
\* failure and fulfils, every other module's promise rejects.
PromiseAllFulfils(f) == f \in {"none", "audio"}

\* The promise returned by initialize() when Promise.all fulfilled (ok) or
\* rejected: the catch block logs the error and returns, so the promise is
\* fulfilled either way.
InitializePromise(ok) == "initialized"

\* initialize(), after the await, arg recording the module that failed.  An
\* exception of start() is caught with the rejection and logged.
SettleWithin(ok, arg, n) ==
    /\ initCalls > 0
    /\ initCalls' = initCalls - 1
    /\ lastAct' = InitializePromise(ok)
    /\ again' = FALSE
    /\ lastArg' = arg
    /\ UNCHANGED snapshotVars
    /\ isInitialized' = (isInitialized \/ ok)
    /\ CommitWithin(IF ok THEN Start(World) ELSE World, n)
    /\ UNCHANGED <<keys, lastTouchX, lastTouchY, gyroscopeEnabled, gyro,
                   permission, disposed>>

Settle(ok, arg) == SettleWithin(ok, arg, MaxTicks)

\* initialize(), after the await: Promise.all fulfilled (ok) or rejected.
InitializeSettled(ok) == Settle(ok, NoArg)

\* initialize(), after the await, when the initialize() of module f threw.
InitializeSettledOn(f) ==
    Settle(PromiseAllFulfils(f), [system |-> f, enabled |-> FALSE])

\* The frame callback with handle h runs animate().
FrameCallbackWithin(h, n) ==
    /\ h \in frames
    /\ clock.since > 0
    /\ lastAct' = "frame"
    /\ again' = FALSE
    /\ lastArg' = NoArg
    /\ UNCHANGED snapshotVars
    /\ CommitWithin(Animate([World EXCEPT !.frames = @ \ {h}]), n)
    /\ UNCHANGED <<keys, lastTouchX, lastTouchY, gyroscopeEnabled, gyro,
                   permission, isInitialized, initCalls, disposed>>

FrameCallback(h) == FrameCallbackWithin(h, MaxTicks)

\* Host time passes: d tenths of a second since the clock was last read.
\* Time that passes while the loop is paused is recorded as a suspension.
TimePasses(d) ==
    /\ clock.running
    /\ clock.since = 0
    /\ clock' = [clock EXCEPT !.since = d]
    /\ lastAct' = IF isPaused THEN "suspended" ELSE lastAct
    /\ UNCHANGED <<again, lastArg, snapshotVars>>
    /\ UNCHANGED <<craftVars, inputVars, isInitialized, isPaused, animationId,
                   frames, initCalls, systems, disposed, gameState,
                   deltaTime, ticks>>

\* handleVisibilityChange: h is document.hidden when the event is handled.
VisibilityChange(h) ==
    /\ lastAct' = IF h THEN "hidden" ELSE "visible"
    /\ again' = (h /\ isPaused)
    /\ lastArg' = NoArg
    /\ UNCHANGED snapshotVars
    /\ Commit(IF h THEN Pause(World) ELSE World)
    /\ UNCHANGED <<keys, lastTouchX, lastTouchY, gyroscopeEnabled, gyro,
                   permission, isInitialized, initCalls, disposed>>

\* resume(), called by the embedding code.
ResumeCall ==
    /\ lastAct' = "resume"
    /\ again' = (~isPaused /\ animationId # 0)
    /\ lastArg' = NoArg
    /\ UNCHANGED snapshotVars
    /\ Commit(Resume(World))
    /\ UNCHANGED <<keys, lastTouchX, lastTouchY, gyroscopeEnabled, gyro,
                   permission, isInitialized, initCalls, disposed>>

\* dispose(): pause(), then the renderer, the audio and the listeners are
\* released (removeEventListener is given fresh bound functions, so the
\* visibility listener stays registered).
Dispose ==
    /\ disposed' = TRUE
    /\ lastAct' = "dispose"
    /\ again' = isPaused
    /\ lastArg' = NoArg
    /\ UNCHANGED snapshotVars
    /\ Commit(Pause(World))
    /\ UNCHANGED <<keys, lastTouchX, lastTouchY, gyroscopeEnabled, gyro,
                   permission, isInitialized, initCalls>>

(***************************************************************************)
(* App                                                                     *)
(***************************************************************************)
Missions == {"atmospheric", "lunar"}

\* MissionSelector.onMissionSelect(mission), shown while gameMode = menu.
OnMissionSelect(mission) ==
    /\ gameState.gameMode = "menu"
    /\ lastAct' = "startMission"
    /\ again' = FALSE
    /\ lastArg' = NoArg
    /\ UNCHANGED snapshotVars
    /\ Commit(StartMission(
          [World EXCEPT !.gameState =
              UpdateGameState(@, [gameMode |-> "playing",
                                  currentMission |-> mission])],
          mission))
    /\ UNCHANGED <<keys, lastTouchX, lastTouchY, gyroscopeEnabled, gyro,
                   permission, isInitialized, initCalls, disposed>>

\* The system toggled from the HUD here; SpecSystems toggles all three.
ToggledSystems == {"propulsion"}

\* HUD.onSystemToggle(system, !gameState.systems[system]), shown while
\* gameMode = playing.
OnSystemToggle(system) ==
    /\ gameState.gameMode = "playing"
    /\ lastAct' = "toggle"
    /\ again' = FALSE
    /\ lastArg' = [system |-> system, enabled |-> ~gameState.systems[system]]
    /\ UNCHANGED snapshotVars
    /\ LET enabled == ~gameState.systems[system]
       IN  Commit(ToggleSystem(
             [World EXCEPT !.gameState =
                 UpdateGameState(@, [systems |->
                     [gameState.systems EXCEPT ![system] = enabled]])],
             system, enabled))
    /\ UNCHANGED <<keys, lastTouchX, lastTouchY, gyroscopeEnabled, gyro,
                   permission, isInitialized, initCalls, disposed>>

\* HUD.onPause(), shown while gameMode = playing.
OnPause ==
    /\ gameState.gameMode = "playing"
    /\ lastAct' = "pause"
    /\ again' = isPaused
    /\ lastArg' = NoArg
    /\ UNCHANGED snapshotVars
    /\ Commit(Pause([World EXCEPT !.gameState =
                        UpdateGameState(@, [gameMode |-> "paused"])]))
    /\ UNCHANGED <<keys, lastTouchX, lastTouchY, gyroscopeEnabled, gyro,
                   permission, isInitialized, initCalls, disposed>>

(***************************************************************************)
(* The program: the App, its engine and the host's events.  The craft is   *)
(* flown from the keyboard; pointer and orientation events are explored    *)
(* by SpecInput.                                                           *)
(***************************************************************************)
EngineKeys == {"Space"}

\* A frame (0.1 s) or a suspension (5 s).
TimeSteps == {1, 50}

Next ==
    \/ Initialize
    \/ \E ok \in BOOLEAN : InitializeSettled(ok)
    \/ \E h \in frames : FrameCallback(h)
    \/ \E d \in TimeSteps : TimePasses(d)
    \/ \E h \in BOOLEAN : VisibilityChange(h)
    \/ ResumeCall
    \/ Dispose
    \/ \E m \in Missions : OnMissionSelect(m)
    \/ \E n \in ToggledSystems : OnSystemToggle(n)
    \/ OnPause
    \/ \E k \in EngineKeys : KeyDown(k)
    \/ \E k \in EngineKeys : KeyUp(k)

Spec == Init /\ [][Next]_vars

\* The fields of the SessionState that only the engine's snapshot writes.
Telemetry(gs) == <<gs.position, gs.velocity, gs.altitude, gs.speed, gs.gForce>>

C7_DisposeTerminal == [][disposed => ticks' = ticks]_vars

\* C8: no tick executes before initialize() has awaited the subsystems.
C8_NoTickUninitialized == [][ticks' # ticks => isInitialized']_vars

\* C9: startMission(id) leaves the CraftState initial, the mode playing, the
\* mission recorded and the loop ticking.
C9_StartMissionFresh ==
    lastAct = "startMission"
        => /\ state = CraftInit
           /\ gameState.gameMode = "playing"
           /\ gameState.currentMission \in Missions
           /\ gameState.currentMission = systems.environment.mission
           /\ ~isPaused
           /\ animationId # 0
           /\ animationId \in frames

\* C10: a pause() that finds the loop paused, and a resume() that finds it
\* running, leave the paused flag and the pending frame callback as they
\* were; the mode is what a single call gives (paused after the HUD's pause,
\* else unchanged); no tick runs.
C10_RepeatIsNoOp ==
    [][again'
         => /\ isPaused' = isPaused
            /\ animationId' = animationId
            /\ frames' = frames
            /\ ticks' = ticks
            /\ gameState'.gameMode =
                 IF lastAct' = "pause" THEN "paused" ELSE gameState.gameMode]_vars

\* resume() called on a running loop with a frame callback pending.
C10_Witness ==
    /\ again
    /\ lastAct = "resume"
    /\ ~isPaused
    /\ animationId \in frames
    /\ ticks > 0

\* C23: under any interleaving of initialize(), startMission(), pause(),
\* resume(), visibility events, dispose() and frame callbacks at most one frame
\* callback is pending, and it is the one whose handle the engine holds.
C23_OneFramePending ==
    /\ Cardinality(frames) <= 1
    /\ frames \subseteq {animationId}

\* The loop re-armed by resume() after a pause, one frame callback pending.
C23_Witness ==
    /\ lastAct = "resume"
    /\ ~again
    /\ ~isPaused
    /\ ticks = MaxTicks
    /\ animationId # 0
    /\ frames = {animationId}

\* C25: SessionState.mode and the loop agree: whenever pause() has halted the
\* loop of a mission, from the HUD or on loss of visibility, the mode is
\* paused, and whenever the mode is playing the loop is ticking (a frame
\* callback is pending).
C25_ModeAgreesWithLoop ==
    /\ (isPaused /\ gameState.gameMode # "menu") => gameState.gameMode = "paused"
    /\ gameState.gameMode = "playing" => (~isPaused /\ animationId \in frames)

\* C26: the elapsed time of the first tick after resume(), or after
\* startMission() re-arms a paused loop, covers only running time: when the
\* loop was paused right after a tick and all the time since has passed in
\* the pause, that tick has deltaTime 0 and moves the craft nowhere.
C26_PauseNotIntegrated ==
    [][(lastAct = "suspended" /\ ticks' = ticks + 1)
         => /\ deltaTime' = 0
            /\ state'.position =
                 IF lastAct' = "startMission" THEN CraftInit.position
                 ELSE state.position]_vars

\* C12: every tick ends with the observer callback invoked with the position,
\* velocity, altitude, speed and gForce of the CraftState that tick produced
\* and the three modules' active flags, so that after a tick the SessionState
\* carries them.
C12_TickPublishes ==
    [][ticks' # ticks
         => /\ Telemetry(gameState') =
                 <<state'.position, state'.velocity, state'.altitude,
                   state'.speed, state'.gForce>>
            /\ \A n \in Modules : gameState'.systems[n] = systems'[n].isActive]_vars

(***************************************************************************)
(* The system toggles on their own: a mission flown for a few ticks, with  *)
(* toggles from the HUD and toggleSystem called with any name              *)
(***************************************************************************)
\* toggleSystem(system, enabled), called by the embedding code.
ToggleSystemCall(system, enabled) ==
    /\ lastAct' = "toggleSystem"
    /\ again' = FALSE
    /\ lastArg' = [system |-> system, enabled |-> enabled]
    /\ UNCHANGED snapshotVars
    /\ Commit(ToggleSystem(World, system, enabled))
    /\ UNCHANGED <<keys, lastTouchX, lastTouchY, gyroscopeEnabled, gyro,
                   permission, isInitialized, initCalls, disposed>>

\* The names passed to toggleSystem: the three modules and one unknown name.
ToggleNames == Modules \cup {"weapons"}

NextSystems ==
    \/ Initialize
    \/ InitializeSettled(TRUE)
    \/ \E h \in frames : FrameCallback(h)
    \/ TimePasses(1)
    \/ OnMissionSelect("atmospheric")
    \/ \E k \in EngineKeys : KeyDown(k)
    \/ \E n \in Modules : OnSystemToggle(n)
    \/ \E n \in ToggleNames, e \in BOOLEAN : ToggleSystemCall(n, e)

SpecSystems == Init /\ [][NextSystems]_vars

\* C11: toggleSystem(name, enabled), from the HUD or called directly, sets the
\* named module's active flag (and, from the HUD, its flag in the
\* SessionState) and nothing else: the other modules' flags and the
\* CraftState are unchanged, and an unknown name changes no flag.
C11_ToggleOnlyNamed ==
    [][lastAct' \in {"toggle", "toggleSystem"}
         => /\ state' = state
            /\ systems'.environment = systems.environment
            /\ \A n \in Modules :
                 /\ systems'[n].isActive =
                      IF n = lastArg'.system THEN lastArg'.enabled
                      ELSE systems[n].isActive
                 /\ gameState'.systems[n] =
                      IF lastAct' = "toggle" /\ n = lastArg'.system
                      THEN lastArg'.enabled
                      ELSE gameState.systems[n]
            /\ [gameState' EXCEPT !.systems = gameState.systems] = gameState]_vars

\* During a flight, cloaking switched on from the HUD, the other two modules
\* still active, and then toggleSystem called with a name that is no
\* module's.
C11_Witness ==
    /\ lastAct = "toggleSystem"
    /\ lastArg = [system |-> "weapons", enabled |-> FALSE]
    /\ ticks > 0
    /\ state # CraftInit
    /\ systems.cloaking.isActive
    /\ gameState.systems.cloaking
    /\ systems.propulsion.isActive
    /\ systems.sensors.isActive

(***************************************************************************)
(* The effect modules over a longer run of ticks: the engine initialized,  *)
(* frames, and toggleSystem called between them.                           *)
(***************************************************************************)
\* Longest run of ticks explored for the effect modules.
MaxEffectTicks == 3

NextEffects ==
    \/ Initialize
    \/ SettleWithin(TRUE, NoArg, MaxEffectTicks)
    \/ \E h \in frames : FrameCallbackWithin(h, MaxEffectTicks)
    \/ \E d \in TimeSteps : TimePasses(d)
    \/ \E k \in EngineKeys : KeyDown(k)
    \/ \E n \in Modules, e \in BOOLEAN : ToggleSystemCall(n, e)

SpecEffects == Init /\ [][NextEffects]_vars

\* C22: a tick updates only the enabled effect modules: propulsion, cloaking
\* or sensors with its active flag off has the same internal state after the
\* tick as before it.
C22_DisabledModuleUntouched ==
    [][ticks' = ticks + 1
         => \A n \in Modules :
               ~systems[n].isActive => systems'[n] = systems[n]]_vars

(***************************************************************************)
(* initialize() called again while an earlier call awaits the subsystems   *)
(***************************************************************************)
\* initialize() calls that may await Promise.all at the same time here.
MaxPending == 2

NextReentry ==
    \/ InitializeWithin(MaxPending)
    \/ InitializeSettled(TRUE)
    \/ \E h \in frames : FrameCallback(h)
    \/ \E d \in TimeSteps : TimePasses(d)
    \/ \E h \in BOOLEAN : VisibilityChange(h)
    \/ ResumeCall
    \/ \E k \in EngineKeys : KeyDown(k)

SpecReentry == Init /\ [][NextReentry]_vars

\* C24: the subsystems' initialize() bodies run at most once for an engine:
\* a call of initialize() that runs them finds nothing built by an earlier
\* call, finished or still awaiting (the cloaking material stands for what
\* the bodies build).
C24_SubsystemsInitializedOnce ==
    [][(lastAct' = "initialize" /\ initCalls' = initCalls + 1)
         => ~systems.cloaking.cloakMaterial]_vars

(***************************************************************************)
(* Initialization with a failing module: initialize() settles after the    *)
(* initialize() of any one module has thrown, or of none                   *)
(***************************************************************************)
NextInit ==
    \/ Initialize
    \/ \E f \in InitModules \cup {"none"} : InitializeSettledOn(f)
    \/ \E h \in frames : FrameCallback(h)
    \/ \E d \in TimeSteps : TimePasses(d)
    \/ \E h \in BOOLEAN : VisibilityChange(h)
    \/ ResumeCall
    \/ \E m \in Missions : OnMissionSelect(m)
    \/ \E k \in EngineKeys : KeyDown(k)

SpecInit == Init /\ [][NextInit]_vars

\* C15: when the initialize() of an effect module (propulsion, cloaking,
\* sensors, environment or audio) fails, initialize() still brings the loop
\* to running: unless the loop is paused, the engine is initialized, a tick
\* has run and the next frame is requested.
C15_EffectFailureStillRuns ==
    [][(lastAct' = "initialized" /\ lastArg'.system \in InitModules \ {"craft"}
          /\ ~isPaused)
         => /\ isInitialized'
            /\ ticks' > 0
            /\ animationId' # 0
            /\ animationId' \in frames']_vars

\* C16: when the craft's initialize() fails, initialize() leaves the loop
\* uninitialized with no tick run and no frame requested by the call, and
\* its promise rejects instead of fulfilling.
C16_CoreFailureReported ==
    [][(~isInitialized /\ lastArg'.system = "craft"
          /\ lastAct' \in {"initialized", "initializeRejected"})
         => /\ ~isInitialized'
            /\ ticks' = ticks
            /\ frames' = frames
            /\ animationId' = animationId
            /\ lastAct' = "initializeRejected"]_vars

====
